---- MODULE Spec2Model ----
(***************************************************************************)
(* Model of kubespawner/reflector.py: NamespacedResourceReflector.         *)
(*                                                                         *)
(* Two execution contexts: the caller of start() and the daemon thread     *)
(* running _watch_and_update().  Delays are counted in tenths of a second, *)
(* so 0.1 s is 1 and the 30 s ceiling is 300; doubling a binary float is   *)
(* exact, so the comparisons against 30 agree with the integer ones.       *)
(*                                                                         *)
(* Spec     one caller of start() and the watch thread; fetch results and  *)
(*          events are arbitrary.                                          *)
(* SpecRace two callers of start() whose calls may overlap.                *)
(* SpecLive Spec run against a remote store, with a fair watch thread.     *)
(***************************************************************************)
EXTENDS Integers, Sequences, FiniteSets, TLC

\* ---------------------------------------------------------------- bounds
\* Largest number of events one subscription delivers before it ends.
MaxEvents == 3

\* ------------------------------------------------------ program constants
\* cur_delay = 0.1 (reflector.py:108 and :119), in tenths of a second.
D0 == 1
\* if cur_delay > 30: raise (reflector.py:131), in tenths of a second.
Ceiling == 300

\* ------------------------------------------------------------ data domain
\* metadata.name of the resources the remote store may hold.
Names == {"A", "B"}
\* Distinguishes successive states of one resource (A and A').
Vers == {1, 2}
\* A resource object as the API returns it: p.metadata.name plus a state.
Objects == [name : Names, ver : Vers]
\* ev['type'] of the events of a watch stream.
EventTypes == {"ADDED", "MODIFIED", "DELETED"}
\* A watch event: {'type': ..., 'object': ...}.
Events == [type : EventTypes, object : Objects]
\* initial_resources.items: names are unique within one namespace.
ItemSets == {S \in SUBSET Objects : \A p, q \in S : p.name = q.name => p = q}

\* --------------------------------------------------------- dict operations
\* The empty dictionary, the default of the resources trait.
EmptyDict == [n \in {} |-> [name |-> n, ver |-> 1]]

\* d.pop(k, None): removes k when present, never raises.
Pop(d, k) == [n \in (DOMAIN d) \ {k} |-> d[n]]

\* Variant of SetItem: d.setdefault(k, v), the first write wins.
SetItemKeepFirst(d, k, v) == [n \in (DOMAIN d) \cup {k} |-> IF n \in DOMAIN d THEN d[n] ELSE v]

\* d[k] = v: insert or overwrite.
SetItem(d, k, v) == [n \in (DOMAIN d) \cup {k} |-> IF n = k THEN v ELSE d[n]]

\* {p.metadata.name: p for p in items}, a freshly built dictionary.
DictOf(items) == [n \in {p.name : p \in items} |-> CHOOSE p \in items : p.name = n]

VARIABLES
    resources,     \* self.resources, the Mirror
    watch_thread,  \* hasattr(self, 'watch_thread')
    nthreads,      \* number of threading.Thread objects started
    cpc,           \* position of the caller inside start()
    result,        \* outcome of the caller's last start()
    pc,            \* position of the watch thread in _watch_and_update
    cur_delay,     \* local cur_delay of _watch_and_update
    w,             \* local w of _watch_and_update: the Watch it names
    snapshot,      \* history: items of the last successful full fetch
    delivered,     \* history: events the subscription paired with it yielded
    synced,        \* history: some full fetch has completed
    nfail,         \* history: failures since the last event (or loop start)
    everFailed,    \* history: the loop has handled at least one failure
    cpc2,          \* position of a second caller inside start()
    result2,       \* outcome of the second caller's last start()
    remote,        \* the resources the remote store holds
    settled        \* the remote store has stopped changing and failing

vars == <<resources, watch_thread, nthreads, cpc, result, pc, cur_delay, w,
          snapshot, delivered, synced, nfail, everFailed,
          cpc2, result2, remote, settled>>

callerVars == <<cpc, result>>
threadVars == <<pc, cur_delay, w, nfail, everFailed>>
mirrorVars == <<resources, snapshot, delivered, synced>>
\* What only SpecRace (a second caller) and SpecLive (the remote store) move.
caller2Vars == <<cpc2, result2>>
storeVars == <<remote, settled>>
restVars == <<caller2Vars, storeVars>>

\* ------------------------------------------------------------- operations
\* Variant of ListAndUpdate: self.resources.update(...), a merge into the old one.
ListAndUpdateMerge(old, items) ==
    [n \in (DOMAIN old) \cup {p.name : p \in items} |->
        IF n \in {p.name : p \in items} THEN DictOf(items)[n] ELSE old[n]]

\* Variant of ListAndUpdate: the dictionary is published while it is still
\* being filled, one item short of the fetch result.
ListAndUpdatePartial(old, items) ==
    IF items = {} THEN DictOf(items)
    ELSE DictOf(items \ {CHOOSE p \in items : TRUE})

\* _list_and_update, on success: the whole dictionary is replaced.
ListAndUpdate(old, items) == DictOf(items)

\* Variant of ApplyEvent: the type is compared with a misspelt 'DELETE', so
\* a DELETED event is stored like any other.
ApplyEventTypo(d, ev) ==
    IF ev.type = "DELETE"
    THEN Pop(d, ev.object.name)
    ELSE SetItem(d, ev.object.name, ev.object)

\* Body of the for loop, lines 120-126.
ApplyEvent(d, ev) ==
    IF ev.type = "DELETED"
    THEN Pop(d, ev.object.name)
    ELSE SetItem(d, ev.object.name, ev.object)

\* Variant of NextDelay: a linear backoff.
NextDelayLinear(d) == d + 2

\* cur_delay = cur_delay * 2 (line 128).
NextDelay(d) == d * 2

\* if cur_delay > 30: raise (line 131).
GiveUp(d) == d > Ceiling

\* The object was constructed; __init__ is about to call start().
Init ==
    /\ resources = EmptyDict
    /\ watch_thread = FALSE
    /\ nthreads = 0
    /\ cpc = "idle"
    /\ result = "none"
    /\ pc = "none"
    /\ cur_delay = D0
    /\ w = "unbound"
    /\ snapshot = {}
    /\ delivered = << >>
    /\ synced = FALSE
    /\ nfail = 0
    /\ everFailed = FALSE
    /\ cpc2 = "idle"
    /\ result2 = "none"
    /\ remote = {}
    /\ settled = FALSE

\* Variant of StartCheck: the hasattr guard is missing.
StartCheckNoGuard ==
    /\ cpc = "idle"
    /\ result' = "none"
    /\ cpc' = "list"
    /\ UNCHANGED <<restVars, watch_thread, nthreads, threadVars, mirrorVars>>

\* Variant of StartCheck: the guard also asks watch_thread.is_alive(), so a
\* dead thread is replaced.
StartCheckAlive ==
    /\ cpc = "idle"
    /\ IF watch_thread /\ pc \notin {"fatal", "crashed"}
       THEN /\ result' = "ValueError"
            /\ cpc' = "idle"
       ELSE /\ result' = "none"
            /\ cpc' = "list"
    /\ UNCHANGED <<restVars, watch_thread, nthreads, threadVars, mirrorVars>>

\* start(), lines 147-148: the hasattr check.
StartCheck ==
    /\ cpc = "idle"
    /\ IF watch_thread
       THEN /\ result' = "ValueError"
            /\ cpc' = "idle"
       ELSE /\ result' = "none"
            /\ cpc' = "list"
    /\ UNCHANGED <<restVars, watch_thread, nthreads, threadVars, mirrorVars>>

\* start(), line 150: the blocking full fetch succeeds.
StartListOk ==
    /\ cpc = "list"
    /\ \E items \in ItemSets :
          /\ resources' = ListAndUpdate(resources, items)
          /\ snapshot' = items
    /\ delivered' = << >>
    /\ synced' = TRUE
    /\ cpc' = "spawn"
    /\ UNCHANGED <<restVars, result, watch_thread, nthreads, threadVars>>

\* Variant of StartListFail: the error is swallowed and start() goes on.
StartListFailSwallow ==
    /\ cpc = "list"
    /\ cpc' = "spawn"
    /\ UNCHANGED <<restVars, result, watch_thread, nthreads, threadVars, mirrorVars>>

\* start(), line 150: the list call raises; the error leaves start().
StartListFail ==
    /\ cpc = "list"
    /\ cpc' = "idle"
    /\ result' = "ListError"
    /\ UNCHANGED <<restVars, watch_thread, nthreads, threadVars, mirrorVars>>

\* start(), lines 151-154, and the thread's first statement, line 108.
StartSpawn ==
    /\ cpc = "spawn"
    /\ watch_thread' = TRUE
    /\ nthreads' = nthreads + 1
    /\ pc' = "list"
    /\ cur_delay' = D0
    /\ w' = "unbound"
    /\ nfail' = 0
    /\ cpc' = "idle"
    /\ result' = "returned"
    /\ UNCHANGED <<restVars, everFailed, mirrorVars>>

\* Variant of OnError: after the sleep the loop goes on reading from a new
\* stream without a full fetch.
OnErrorResume ==
    /\ cur_delay' = NextDelay(cur_delay)
    /\ nfail' = nfail + 1
    /\ everFailed' = TRUE
    /\ IF w = "unbound"
       THEN /\ pc' = "crashed"
            /\ w' = w
       ELSE /\ pc' = IF GiveUp(NextDelay(cur_delay)) THEN "fatal" ELSE "stream"
            /\ w' = "open"

\* Lines 127-135: the except clause, then the finally clause.  An unbound
\* w makes w.stop() raise UnboundLocalError, which ends the thread.
OnError ==
    /\ cur_delay' = NextDelay(cur_delay)
    /\ nfail' = nfail + 1
    /\ everFailed' = TRUE
    /\ IF w = "unbound"
       THEN /\ pc' = "crashed"
            /\ w' = w
       ELSE /\ pc' = IF GiveUp(NextDelay(cur_delay)) THEN "fatal" ELSE "list"
            /\ w' = "stopped"

\* Variant of LoopListOk: opening the subscription resets cur_delay.
LoopListOkReset ==
    /\ pc = "list"
    /\ \E items \in ItemSets :
          /\ resources' = ListAndUpdate(resources, items)
          /\ snapshot' = items
    /\ delivered' = << >>
    /\ synced' = TRUE
    /\ w' = "open"
    /\ pc' = "stream"
    /\ cur_delay' = D0
    /\ UNCHANGED <<restVars, nfail, everFailed, watch_thread, nthreads, callerVars>>

\* Lines 112-114: the full fetch succeeds and a new Watch is opened.
LoopListOk ==
    /\ pc = "list"
    /\ \E items \in ItemSets :
          /\ resources' = ListAndUpdate(resources, items)
          /\ snapshot' = items
    /\ delivered' = << >>
    /\ synced' = TRUE
    /\ w' = "open"
    /\ pc' = "stream"
    /\ UNCHANGED <<restVars, cur_delay, nfail, everFailed, watch_thread, nthreads, callerVars>>

\* Variant of LoopListFail: the Mirror is emptied when the fetch fails.
LoopListFailClear ==
    /\ pc = "list"
    /\ OnError
    /\ resources' = EmptyDict
    /\ UNCHANGED <<restVars, watch_thread, nthreads, callerVars, snapshot, delivered, synced>>

\* Line 112 raises.
LoopListFail ==
    /\ pc = "list"
    /\ OnError
    /\ UNCHANGED <<restVars, watch_thread, nthreads, callerVars, mirrorVars>>

\* Variant of StreamEvent: line 119 is missing, cur_delay is not reset.
StreamEventNoReset ==
    /\ pc = "stream"
    /\ Len(delivered) < MaxEvents
    /\ \E ev \in Events :
          /\ resources' = ApplyEvent(resources, ev)
          /\ delivered' = Append(delivered, ev)
    /\ nfail' = 0
    /\ UNCHANGED <<restVars, cur_delay, pc, w, everFailed, snapshot, synced, watch_thread, nthreads, callerVars>>

\* Lines 114-126: the stream yields one event.
StreamEvent ==
    /\ pc = "stream"
    /\ Len(delivered) < MaxEvents
    /\ \E ev \in Events :
          /\ resources' = ApplyEvent(resources, ev)
          /\ delivered' = Append(delivered, ev)
    /\ cur_delay' = D0
    /\ nfail' = 0
    /\ UNCHANGED <<restVars, pc, w, everFailed, snapshot, synced, watch_thread, nthreads, callerVars>>

\* Line 114: the stream raises.
StreamFail ==
    /\ pc = "stream"
    /\ OnError
    /\ UNCHANGED <<restVars, watch_thread, nthreads, callerVars, mirrorVars>>

\* Variant of StreamEnd: a clean end of the stream resets cur_delay.
StreamEndReset ==
    /\ pc = "stream"
    /\ w' = "stopped"
    /\ pc' = "list"
    /\ cur_delay' = D0
    /\ UNCHANGED <<restVars, nfail, everFailed, watch_thread, nthreads, callerVars, mirrorVars>>

\* Line 114: the stream ends without raising; finally, then the next turn.
StreamEnd ==
    /\ pc = "stream"
    /\ w' = "stopped"
    /\ pc' = "list"
    /\ UNCHANGED <<restVars, cur_delay, nfail, everFailed, watch_thread, nthreads, callerVars, mirrorVars>>

Next ==
    \/ StartCheck
    \/ StartListOk
    \/ StartListFail
    \/ StartSpawn
    \/ LoopListOk
    \/ LoopListFail
    \/ StreamEvent
    \/ StreamFail
    \/ StreamEnd

Spec == Init /\ [][Next]_vars

\* ------------------------------------------------- two callers of start()
\* The steps of start() taken by a second caller, on the same instance,
\* whose call may overlap the first caller's.

\* start(), lines 147-148, second caller.
StartCheck2 ==
    /\ cpc2 = "idle"
    /\ IF watch_thread
       THEN /\ result2' = "ValueError"
            /\ cpc2' = "idle"
       ELSE /\ result2' = "none"
            /\ cpc2' = "list"
    /\ UNCHANGED <<callerVars, storeVars, watch_thread, nthreads, threadVars, mirrorVars>>

\* start(), line 150, second caller: the full fetch succeeds.
StartListOk2 ==
    /\ cpc2 = "list"
    /\ \E items \in ItemSets :
          /\ resources' = ListAndUpdate(resources, items)
          /\ snapshot' = items
    /\ delivered' = << >>
    /\ synced' = TRUE
    /\ cpc2' = "spawn"
    /\ UNCHANGED <<callerVars, storeVars, result2, watch_thread, nthreads, threadVars>>

\* start(), line 150, second caller: the list call raises.
StartListFail2 ==
    /\ cpc2 = "list"
    /\ cpc2' = "idle"
    /\ result2' = "ListError"
    /\ UNCHANGED <<callerVars, storeVars, watch_thread, nthreads, threadVars, mirrorVars>>

\* start(), lines 151-154, second caller: self.watch_thread is assigned a
\* new Thread, which is started.
StartSpawn2 ==
    /\ cpc2 = "spawn"
    /\ watch_thread' = TRUE
    /\ nthreads' = nthreads + 1
    /\ pc' = "list"
    /\ cur_delay' = D0
    /\ w' = "unbound"
    /\ nfail' = 0
    /\ cpc2' = "idle"
    /\ result2' = "returned"
    /\ UNCHANGED <<callerVars, storeVars, everFailed, mirrorVars>>

\* Only the steps of start(): the watch threads' own steps change neither
\* watch_thread, nthreads nor the outcome of a call.
NextRace ==
    \/ StartCheck
    \/ StartListOk
    \/ StartListFail
    \/ StartSpawn
    \/ StartCheck2
    \/ StartListOk2
    \/ StartListFail2
    \/ StartSpawn2

SpecRace == Init /\ [][NextRace]_vars

\* ------------------------------------------------------- the remote store
\* The program together with the store it mirrors: a full fetch returns what
\* the store holds, the stream reports where the store differs from what the
\* subscription has shown so far, and once the store has settled it neither
\* changes nor fails.

\* One resource is created, replaced or deleted in the store.
RemoteChange ==
    /\ ~settled
    /\ \E o \in Objects :
          \/ /\ o \notin remote
             /\ remote' = {p \in remote : p.name # o.name} \cup {o}
          \/ /\ o \in remote
             /\ remote' = remote \ {o}
    /\ UNCHANGED <<settled, caller2Vars, callerVars, threadVars, mirrorVars, watch_thread, nthreads>>

\* From now on the store stops changing and stops failing.
Settle ==
    /\ ~settled
    /\ settled' = TRUE
    /\ UNCHANGED <<remote, caller2Vars, callerVars, threadVars, mirrorVars, watch_thread, nthreads>>

\* The events a stream can yield to a subscriber that knows d.
StoreEvents(d) ==
    {ev \in Events :
        \/ /\ ev.type = "DELETED"
           /\ ev.object.name \in DOMAIN d
           /\ ev.object = d[ev.object.name]
           /\ \A p \in remote : p.name # ev.object.name
        \/ /\ ev.type = "ADDED"
           /\ ev.object.name \notin DOMAIN d
           /\ ev.object \in remote
        \/ /\ ev.type = "MODIFIED"
           /\ ev.object.name \in DOMAIN d
           /\ ev.object \in remote
           /\ ev.object # d[ev.object.name]}

\* start(), line 150, against the store.
LiveStartListOk == StartListOk /\ snapshot' = remote
LiveStartListFail == ~settled /\ StartListFail

\* Lines 112-114 against the store.
LiveLoopListOk == LoopListOk /\ snapshot' = remote
LiveLoopListFail == ~settled /\ LoopListFail

\* Lines 114-126 against the store.
LiveStreamEvent == StreamEvent /\ delivered'[Len(delivered')] \in StoreEvents(resources)
LiveStreamFail == ~settled /\ StreamFail

\* The steps of the watch thread.
LiveThread ==
    \/ LiveLoopListOk
    \/ LiveLoopListFail
    \/ LiveStreamEvent
    \/ LiveStreamFail
    \/ StreamEnd

NextLive ==
    \/ RemoteChange
    \/ Settle
    \/ StartCheck
    \/ LiveStartListOk
    \/ LiveStartListFail
    \/ StartSpawn
    \/ LiveLoopListOk
    \/ LiveLoopListFail
    \/ LiveStreamEvent
    \/ LiveStreamFail
    \/ StreamEnd

\* The watch thread is a running thread: it takes a step whenever one stays
\* possible.
SpecLive == Init /\ [][NextLive]_vars /\ WF_vars(LiveThread)

TypeOK ==
    /\ DOMAIN resources \subseteq Names
    /\ watch_thread \in BOOLEAN
    /\ cpc \in {"idle", "list", "spawn"}
    /\ result \in {"none", "returned", "ValueError", "ListError"}
    /\ pc \in {"none", "list", "stream", "fatal", "crashed"}
    /\ w \in {"unbound", "open", "stopped"}
    /\ snapshot \in ItemSets
    /\ Len(delivered) <= MaxEvents
    /\ cpc2 \in {"idle", "list", "spawn"}
    /\ result2 \in {"none", "returned", "ValueError", "ListError"}
    /\ remote \in ItemSets
    /\ settled \in BOOLEAN

\* ------------------------------------------------------------ properties
\* What the specification says a snapshot is: name -> object of its items.
SnapMap(S) == [n \in {p.name : p \in S} |-> CHOOSE p \in S : p.name = n]

\* What the specification says one event does to a mirror.
SpecStep(m, ev) ==
    IF ev.type = "DELETED"
    THEN [n \in {x \in DOMAIN m : x # ev.object.name} |-> m[n]]
    ELSE [n \in (DOMAIN m) \cup {ev.object.name} |->
             IF n = ev.object.name THEN ev.object ELSE m[n]]

\* A mirror folded with a sequence of events, in order.
RECURSIVE SpecFold(_, _)
SpecFold(m, evs) ==
    IF evs = << >> THEN m ELSE SpecFold(SpecStep(m, Head(evs)), Tail(evs))

\* Index of the last event of evs about name n, 0 when there is none.
LastIdx(n, evs) ==
    LET I == {i \in 1..Len(evs) : evs[i].object.name = n}
    IN IF I = {} THEN 0 ELSE CHOOSE i \in I : \A j \in I : j <= i

Obj(n, v) == [name |-> n, ver |-> v]
Ev(t, n, v) == [type |-> t, object |-> Obj(n, v)]

\* C1: after any sequence of events of the subscription paired with a full
\* fetch, the Mirror is the snapshot folded with the events in delivery
\* order: for every name the last event about it decides (DELETED: absent,
\* ADDED/MODIFIED: that event's object), and a name no event mentions is as
\* the snapshot has it.
C1_MirrorIsFold ==
    synced =>
      \A n \in Names :
        LET i == LastIdx(n, delivered) IN
        IF i = 0
        THEN /\ (n \in DOMAIN resources) <=> (\E p \in snapshot : p.name = n)
             /\ (n \in DOMAIN resources) => resources[n] \in snapshot
        ELSE IF delivered[i].type = "DELETED"
             THEN n \notin DOMAIN resources
             ELSE /\ n \in DOMAIN resources
                  /\ resources[n] = delivered[i].object

\* Snapshot {A, B}, then MODIFIED(A'), DELETED(B), ADDED(B') gives {A: A', B: B'}.
C1_Witness ==
    /\ snapshot = {Obj("A", 1), Obj("B", 1)}
    /\ delivered = <<Ev("MODIFIED", "A", 2), Ev("DELETED", "B", 1), Ev("ADDED", "B", 2)>>
    /\ resources = [n \in {"A", "B"} |-> Obj(n, 2)]

\* C2: once start() has returned, what a reader finds in self.resources is
\* the result of a completed full fetch with a prefix of the paired
\* subscription's events applied in order, in every state of every
\* interleaving; never a mapping that is only partly built.
C2_ReaderSeesFetchPlusPrefix ==
    watch_thread =>
      \E k \in 0..Len(delivered) :
        resources = SpecFold(SnapMap(snapshot), SubSeq(delivered, 1, k))

\* A reader arriving while the loop is about to replace a mirror that events
\* have changed since its fetch.
C2_Witness ==
    /\ watch_thread
    /\ pc = "list"
    /\ everFailed
    /\ Len(delivered) = 2
    /\ resources # SnapMap(snapshot)

\* C3: start() on an instance whose thread exists raises ValueError, spawns
\* no second thread, issues no fetch and leaves the Mirror and the thread
\* as they are.
C3_SecondStartFails ==
    /\ [](nthreads <= 1)
    /\ [][(watch_thread /\ callerVars' # callerVars) =>
            /\ result' = "ValueError"
            /\ cpc' = "idle"
            /\ UNCHANGED <<watch_thread, nthreads, threadVars, mirrorVars>>]_vars

C3_Witness ==
    /\ result = "ValueError"
    /\ watch_thread
    /\ nthreads = 1
    /\ pc = "stream"

\* The delays of the specification's scenario, in tenths of a second.
DelaySeq == <<2, 4, 8, 16, 32, 64, 128, 256, 512>>

\* C4: after n failures in a row with no event in between the delay is
\* 0.1 * 2^n; the loop is in FATAL exactly when that delay exceeds 30 s,
\* which first happens at the 9th failure (51.2 s).
C4_BackoffSequence ==
    /\ nfail \in 0..9
    /\ cur_delay = IF nfail = 0 THEN 1 ELSE DelaySeq[nfail]
    /\ (pc = "fatal") => (nfail = 9 /\ cur_delay = 512)
    /\ (cur_delay > 300) => (pc = "fatal")

C4_Witness ==
    /\ pc = "fatal"
    /\ nfail = 9
    /\ cur_delay = 512

\* C5: an event applied after failures puts the delay at the floor, it stays
\* there until the next failure, and that failure backs off for twice the
\* floor.
C5_EventResetsDelay ==
    /\ [][(Len(delivered') = Len(delivered) + 1) => cur_delay' = 1]_vars
    /\ []((everFailed /\ nfail = 0) => cur_delay = 1)
    /\ [][(nfail = 0 /\ nfail' = 1) => cur_delay' = 2]_vars

\* An event has been applied after a failure and nothing has failed since.
C5_Witness ==
    /\ everFailed
    /\ nfail = 0
    /\ cur_delay = 1
    /\ delivered # << >>
    /\ pc = "stream"

\* C6 as stated: whenever a subscription is open the delay is at its floor,
\* whether or not it has delivered an event.
C6_ResetOnSubscribe == (pc = "stream") => (cur_delay = 1)

\* C6 amended: opening a subscription leaves the delay as it is; while a
\* subscription is open the delay is above the floor only as long as no
\* event has been delivered.
C6_ResetOnlyOnEvent ==
    /\ [][(pc = "list" /\ pc' = "stream") => cur_delay' = cur_delay]_vars
    /\ []((pc = "stream" /\ cur_delay # 1) => delivered = << >>)

\* Eight failures, each followed by a successful re-subscription.
C6_Witness ==
    /\ pc = "stream"
    /\ cur_delay = 256
    /\ delivered = << >>

\* C7: the watch thread ends only through the FATAL transition: whenever it
\* has ended, the delay of the last failure exceeds the ceiling.
C7_EndsOnlyByFatal == (pc \in {"fatal", "crashed"}) => (cur_delay > 300)

\* C8: a successful full fetch, in start() or in the loop, makes the Mirror
\* exactly name -> object of the fetched items.
C8_FetchReplaces ==
    [][((cpc = "list" /\ cpc' = "spawn") \/ (pc = "list" /\ pc' = "stream")) =>
         /\ DOMAIN resources' = {p.name : p \in snapshot'}
         /\ \A n \in DOMAIN resources' : resources'[n] \in snapshot']_vars

\* The first fetch after a streaming failure returned fewer names than the
\* events had put into the Mirror.
C8_Witness ==
    /\ everFailed
    /\ pc = "stream"
    /\ delivered = << >>
    /\ snapshot = {Obj("A", 2)}
    /\ resources = SnapMap(snapshot)

\* C9: a DELETED event for a name the Mirror does not hold changes nothing
\* and is no failure (same subscription, still streaming, nothing doubled);
\* the same DELETED twice is as good as once.
C9_DeleteAbsent ==
    /\ [][(/\ Len(delivered') = Len(delivered) + 1
           /\ delivered'[Len(delivered')].type = "DELETED"
           /\ delivered'[Len(delivered')].object.name \notin DOMAIN resources) =>
            /\ resources' = resources
            /\ pc' = "stream"
            /\ w' = w
            /\ cur_delay' <= cur_delay
            /\ nfail' = 0]_vars
    /\ []((/\ Len(delivered) >= 2
           /\ delivered[Len(delivered)] = delivered[Len(delivered) - 1]
           /\ delivered[Len(delivered)].type = "DELETED") =>
            resources = SpecFold(SnapMap(snapshot),
                                 SubSeq(delivered, 1, Len(delivered) - 1)))

C9_Witness ==
    /\ pc = "stream"
    /\ w = "open"
    /\ snapshot = {Obj("A", 1)}
    /\ delivered = <<Ev("DELETED", "B", 1), Ev("DELETED", "B", 1)>>
    /\ resources = SnapMap(snapshot)

\* C10: the watch thread exists only after a full fetch has filled the
\* Mirror, and a start() whose fetch fails spawns no thread.
C10_FetchBeforeThread ==
    /\ [](watch_thread => synced)
    /\ [][(~watch_thread /\ watch_thread') =>
            /\ synced
            /\ delivered = << >>
            /\ resources = SnapMap(snapshot)
            /\ resources' = resources]_vars
    /\ [][(cpc = "list" /\ result' = "ListError") =>
            /\ cpc' = "idle"
            /\ UNCHANGED <<watch_thread, nthreads, threadVars, mirrorVars>>]_vars
    /\ [](result = "ListError" => ~watch_thread)

C10_Witness ==
    /\ watch_thread
    /\ pc = "list"
    /\ ~everFailed
    /\ delivered = << >>
    /\ resources = [n \in {"A", "B"} |-> Obj(n, 1)]

\* C12: in the loop a subscription is opened only by the step that completes
\* a full fetch, a failure never leaves the loop streaming (so no event is
\* applied until a fetch has succeeded again), and each event of a
\* subscription is applied on its own, in the order the stream yields it.
C12_FetchBeforeSubscription ==
    /\ [][(pc' = "stream" /\ pc # "stream") =>
            /\ pc = "list"
            /\ w' = "open"
            /\ delivered' = << >>
            /\ resources' = SnapMap(snapshot')]_vars
    /\ [][(nfail' = nfail + 1) => pc' # "stream"]_vars
    /\ [][(delivered' # delivered /\ delivered' # << >>) =>
            /\ pc = "stream" /\ w = "open"
            /\ Len(delivered') = Len(delivered) + 1
            /\ SubSeq(delivered', 1, Len(delivered)) = delivered
            /\ resources' = SpecStep(resources, delivered'[Len(delivered')])]_vars

\* After a streaming failure a new fetch has succeeded and two events of the
\* new subscription have been applied.
C12_Witness ==
    /\ everFailed
    /\ pc = "stream"
    /\ snapshot = {Obj("A", 1)}
    /\ delivered = <<Ev("ADDED", "B", 1), Ev("MODIFIED", "A", 2)>>
    /\ resources = [n \in {"A", "B"} |-> Obj(n, IF n = "A" THEN 2 ELSE 1)]

\* C13: whenever an iteration of the loop ends (error, clean end of the
\* stream, FATAL), the release acts on the Watch that this iteration opened
\* and does not fail, iterations whose fetch failed included.
C13_ReleaseOwnWatch ==
    /\ [](pc # "crashed")
    /\ [][(pc \in {"list", "stream"} /\ pc' \in {"list", "fatal"}
           /\ w' = "stopped" /\ (pc' # pc \/ nfail' # nfail)) =>
            w = "open"]_vars

\* C14: FATAL is terminal: afterwards the thread takes no step, the Mirror
\* is never written again, and start() still raises ValueError.
C14_FatalIsTerminal ==
    [][(pc = "fatal") =>
         /\ UNCHANGED <<threadVars, mirrorVars, watch_thread, nthreads>>
         /\ (callerVars' # callerVars => (result' = "ValueError" /\ cpc' = "idle"))]_vars

C14_Witness ==
    /\ pc = "fatal"
    /\ result = "ValueError"
    /\ cpc = "idle"
    /\ nthreads = 1

\* C15 as stated: every write of the Mirror is a step of the background
\* watch thread; no other context assigns or mutates it.
C15_OnlyThreadWrites ==
    [][(mirrorVars' # mirrorVars) =>
         /\ watch_thread
         /\ pc \in {"list", "stream"}
         /\ UNCHANGED callerVars]_vars

\* C15 amended: the Mirror has two writers that never write at the same
\* time: the caller of start() in its blocking fetch, while no watch thread
\* exists, and afterwards the watch thread alone.
C15_StartThenThreadWrites ==
    /\ [][(mirrorVars' # mirrorVars) =>
            \/ /\ cpc = "list" /\ cpc' = "spawn"
               /\ ~watch_thread /\ pc = "none"
               /\ UNCHANGED threadVars
            \/ /\ watch_thread /\ pc \in {"list", "stream"}
               /\ cpc = "idle"
               /\ UNCHANGED callerVars]_vars
    /\ [](cpc # "idle" => (~watch_thread /\ pc = "none"))

\* Both writers have acted: start() filled the Mirror and returned, then
\* the thread replaced it and applied an event.
C15_Witness ==
    /\ result = "returned"
    /\ pc = "stream"
    /\ Len(delivered) = 1
    /\ resources # SnapMap(snapshot)

\* C16: the delay at which the loop stops retrying is 32 s.
C16_GivesUpAt32 == (pc = "fatal") => (cur_delay = 320)

\* C17: a full fetch that fails, in start() or in the loop, leaves the
\* Mirror as it was, and while the loop waits to fetch again the Mirror
\* changes only by a fetch that succeeds.
C17_FailedFetchKeepsMirror ==
    /\ [][((pc = "list" /\ nfail' = nfail + 1) \/ (cpc = "list" /\ cpc' = "idle")) =>
            UNCHANGED mirrorVars]_vars
    /\ [][(pc = "list" /\ resources' # resources) =>
            /\ pc' = "stream"
            /\ delivered' = << >>
            /\ resources' = SnapMap(snapshot')]_vars

\* The stream failed after one event and at least one fetch has failed
\* since; the Mirror still holds what the event left.
C17_Witness ==
    /\ pc = "list"
    /\ nfail = 3
    /\ Len(delivered) = 1
    /\ resources # SnapMap(snapshot)

\* C18: a step that takes the loop from streaming back to the fetch is either
\* a failure (delay doubled) or a clean end of the stream, and the clean end
\* stops the Watch, enters no backoff and leaves the delay and the Mirror
\* unchanged.
C18_CleanEndKeepsDelay ==
    [][(pc = "stream" /\ pc' = "list") =>
         \/ /\ nfail' = nfail + 1
            /\ cur_delay' = 2 * cur_delay
         \/ /\ nfail' = nfail
            /\ cur_delay' = cur_delay
            /\ everFailed' = everFailed
            /\ w = "open" /\ w' = "stopped"
            /\ UNCHANGED mirrorVars]_vars

\* A stream that delivered an event after a failure has ended cleanly: no
\* failure since the event, yet the loop is back at the fetch.
C18_Witness ==
    /\ everFailed
    /\ nfail = 0
    /\ pc = "list"
    /\ w = "stopped"
    /\ delivered # << >>

\* C19: however two start() calls on one instance interleave, at most one
\* watch thread is ever created and the two calls do not both return
\* normally.
C19_OneThreadOneError ==
    /\ nthreads <= 1
    /\ ~(result = "returned" /\ result2 = "returned")

\* C11: if from some point on the store has settled, the watch thread has
\* been started and the loop is not in FATAL, then from some point on the
\* Mirror is the store's content.
C11_Converges ==
    <>[](settled /\ watch_thread /\ pc # "fatal") => <>[](resources = SnapMap(remote))

\* The same with the ending of C7 set aside: the thread has not died of the
\* unbound w either.
ConvergesWhileThreadLives ==
    <>[](settled /\ watch_thread /\ pc \notin {"fatal", "crashed"}) =>
        <>[](resources = SnapMap(remote))
====
